---- MODULE Spec2Model ----
(***************************************************************************)
(* Model of src/src/simple_threading.c: the two-flag spin lock             *)
(* (simple_lock_t: flag, guard, queue), its three operations, the worker   *)
(* thread_function and the main harness.                                   *)
(*                                                                         *)
(* Every shared-memory access of the C code is one step of the model, and  *)
(* a behaviour is an interleaving of the threads' steps in program order   *)
(* (sequentially consistent memory): a read that races with a write sees   *)
(* the old or the new value, and stores become visible in program order.   *)
(* The position of each thread in its code is pc[t]:                       *)
(*                                                                         *)
(*   "unborn"   not yet created by main (harness only)                     *)
(*   "start"    about to call simple_lock_acquire          (line 74 / 33)  *)
(*   "tas"      about to test-and-set guard                (line 38)       *)
(*   "spin"     in usleep(10) after a failed test-and-set  (line 40)       *)
(*   "chk"      holds guard, about to read flag            (line 44)       *)
(*   "set"      read flag = false, about to write flag     (line 46)       *)
(*   "unguard"  wrote flag, about to write guard = false   (line 47)       *)
(*   "busy"     read flag = true, about to write guard     (line 52)       *)
(*   "sleep"    in usleep(100) before the retry            (line 53)       *)
(*   "dec"      left the loop, about to decrement queue    (line 57)       *)
(*   "cs1"      acquire returned; first half of the critical section (77)  *)
(*   "cs2"      second half of the critical section        (lines 80-82)   *)
(*   "rel"      about to call simple_lock_release          (line 85 / 63)  *)
(*   "done"     thread_function returned                   (line 87)       *)
(***************************************************************************)
EXTENDS Integers, Sequences, FiniteSets, TLC

\* ----------------------------------------------------------------- bounds
\* Number of contending threads of the general specifications.
NThreads == 2
\* Number of acquire/release rounds each thread performs in Spec.
MaxRounds == 2
\* The harness of main(): pthread_t threads[3].
NUM_THREADS == 3
\* Field values of a lock that was not initialised yet: queue holds any
\* value in -MaxPrior..MaxPrior.
MaxPrior == 2

VARIABLES
    flag,      \* lock.flag  : the main lock flag ("held")
    guard,     \* lock.guard : protects the check-and-set of flag
    queue,     \* lock.queue : counter of waiting threads ("waiters")
    pc,        \* pc[t]      : position of thread t in its code
    todo,      \* todo[t]    : acquire/release rounds thread t still performs
    counter,   \* shared non-atomic counter incremented in the critical section
    tmp,       \* tmp[t]     : the value thread t read from counter
    log,       \* shared ordered log: ids appended in the critical section
    mainpc,    \* position of main(); "none" when there is no harness
    mi,        \* loop index i of main()'s two for loops
    \* ---- instrumentation (written, never read by any guard) ----
    gholder,   \* the thread whose test-and-set took guard, 0 if none
    owner,     \* the thread whose write set flag, 0 after a release
    waitq,     \* threads in the order they incremented queue, until they decrement it
    incs,      \* number of counter increments completed
    relCount,  \* number of release stores executed so far
    setAt,     \* setAt[t] : relCount when t last wrote flag = true
    relAt      \* relAt[t] : index of t's last release store, 0 if none

lockvars == <<flag, guard, queue>>
mainvars == <<mainpc, mi>>
csvars   == <<counter, tmp, log, incs>>
ghost    == <<gholder, owner, waitq, relCount, setAt, relAt>>
vars     == <<flag, guard, queue, pc, todo, counter, tmp, log, mainpc, mi,
              gholder, owner, waitq, incs, relCount, setAt, relAt>>

Procs == DOMAIN pc

\* ------------------------------------------------------------------- lock

\* Faulty variant: guard is not reset.
simple_lock_init_keeps_guard ==
    /\ flag' = FALSE
    /\ guard' = guard
    /\ queue' = 0

\* simple_lock_init: flag = false, guard = false, queue = 0.
simple_lock_init ==
    /\ flag' = FALSE
    /\ guard' = FALSE
    /\ queue' = 0

\* Faulty variant: the intent to acquire is not announced (no increment).
acquire_fetch_add_missing(t) ==
    /\ pc[t] = "start"
    /\ waitq' = Append(waitq, t)
    /\ pc' = [pc EXCEPT ![t] = "tas"]
    /\ UNCHANGED <<flag, guard, queue, todo, csvars, mainvars,
                   gholder, owner, relCount, setAt, relAt>>

\* line 33: __atomic_fetch_add(&lock->queue, 1, __ATOMIC_SEQ_CST)
acquire_fetch_add(t) ==
    /\ pc[t] = "start"
    /\ queue' = queue + 1
    /\ waitq' = Append(waitq, t)
    /\ pc' = [pc EXCEPT ![t] = "tas"]
    /\ UNCHANGED <<flag, guard, todo, csvars, mainvars,
                   gholder, owner, relCount, setAt, relAt>>

\* Faulty variant: the result of the test-and-set is ignored, so a thread
\* goes on to inspect flag although another thread holds guard.
acquire_test_and_set_ignored(t) ==
    /\ pc[t] = "tas"
    /\ guard' = TRUE
    /\ pc' = [pc EXCEPT ![t] = "chk"]
    /\ gholder' = t
    /\ UNCHANGED <<flag, queue, todo, csvars, mainvars,
                   owner, waitq, relCount, setAt, relAt>>

\* Variant with admission in arrival order: only the longest waiter may take
\* guard (what a FIFO lock would do; the code does not).
acquire_test_and_set_fifo(t) ==
    /\ pc[t] = "tas"
    /\ IF guard \/ Head(waitq) # t
         THEN /\ pc' = [pc EXCEPT ![t] = "spin"]
              /\ UNCHANGED <<guard, gholder>>
         ELSE /\ pc' = [pc EXCEPT ![t] = "chk"]
              /\ guard' = TRUE
              /\ gholder' = t
    /\ UNCHANGED <<flag, queue, todo, csvars, mainvars,
                   owner, waitq, relCount, setAt, relAt>>

\* Variant in which the waiters counter gates admission: with more than one
\* thread counted the lock is treated as taken (the code never reads queue).
acquire_test_and_set_gated(t) ==
    /\ pc[t] = "tas"
    /\ IF guard \/ queue > 1
         THEN /\ pc' = [pc EXCEPT ![t] = "spin"]
              /\ UNCHANGED <<guard, gholder>>
         ELSE /\ pc' = [pc EXCEPT ![t] = "chk"]
              /\ guard' = TRUE
              /\ gholder' = t
    /\ UNCHANGED <<flag, queue, todo, csvars, mainvars,
                   owner, waitq, relCount, setAt, relAt>>

\* line 38: while (__atomic_test_and_set(&lock->guard, __ATOMIC_ACQUIRE))
\* The test-and-set returns the old value and leaves guard true.
acquire_test_and_set(t) ==
    /\ pc[t] = "tas"
    /\ guard' = TRUE
    /\ IF guard
         THEN /\ pc' = [pc EXCEPT ![t] = "spin"]
              /\ UNCHANGED gholder
         ELSE /\ pc' = [pc EXCEPT ![t] = "chk"]
              /\ gholder' = t
    /\ UNCHANGED <<flag, queue, todo, csvars, mainvars,
                   owner, waitq, relCount, setAt, relAt>>

\* line 40: usleep(10), then the test-and-set again
acquire_spin(t) ==
    /\ pc[t] = "spin"
    /\ pc' = [pc EXCEPT ![t] = "tas"]
    /\ UNCHANGED <<lockvars, todo, csvars, mainvars, ghost>>

\* Faulty variant: flag is not tested, the lock is taken whatever its state.
acquire_check_flag_blind(t) ==
    /\ pc[t] = "chk"
    /\ pc' = [pc EXCEPT ![t] = "set"]
    /\ UNCHANGED <<lockvars, todo, csvars, mainvars, ghost>>

\* line 44: if (!lock->flag)
acquire_check_flag(t) ==
    /\ pc[t] = "chk"
    /\ pc' = [pc EXCEPT ![t] = IF ~flag THEN "set" ELSE "busy"]
    /\ UNCHANGED <<lockvars, todo, csvars, mainvars, ghost>>

\* Faulty variant: the thread leaves the loop without writing flag.
acquire_set_flag_missing(t) ==
    /\ pc[t] = "set"
    /\ owner' = t
    /\ setAt' = [setAt EXCEPT ![t] = relCount]
    /\ pc' = [pc EXCEPT ![t] = "unguard"]
    /\ UNCHANGED <<flag, guard, queue, todo, csvars, mainvars,
                   gholder, waitq, relCount, relAt>>

\* line 46: lock->flag = true
acquire_set_flag(t) ==
    /\ pc[t] = "set"
    /\ flag' = TRUE
    /\ owner' = t
    /\ setAt' = [setAt EXCEPT ![t] = relCount]
    /\ pc' = [pc EXCEPT ![t] = "unguard"]
    /\ UNCHANGED <<guard, queue, todo, csvars, mainvars,
                   gholder, waitq, relCount, relAt>>

\* Faulty variant: the thread leaves the loop without releasing guard.
acquire_release_guard_missing(t) ==
    /\ pc[t] = "unguard"
    /\ pc' = [pc EXCEPT ![t] = "dec"]
    /\ UNCHANGED <<lockvars, todo, csvars, mainvars, ghost>>

\* lines 47-48: lock->guard = false; break
acquire_release_guard(t) ==
    /\ pc[t] = "unguard"
    /\ guard' = FALSE
    /\ gholder' = IF gholder = t THEN 0 ELSE gholder
    /\ pc' = [pc EXCEPT ![t] = "dec"]
    /\ UNCHANGED <<flag, queue, todo, csvars, mainvars,
                   owner, waitq, relCount, setAt, relAt>>

\* Faulty variant: guard is kept across the sleep before the retry.
acquire_busy_keep_guard(t) ==
    /\ pc[t] = "busy"
    /\ pc' = [pc EXCEPT ![t] = "sleep"]
    /\ UNCHANGED <<lockvars, todo, csvars, mainvars, ghost>>

\* line 52: lock->guard = false (the lock is not available)
acquire_busy_release_guard(t) ==
    /\ pc[t] = "busy"
    /\ guard' = FALSE
    /\ gholder' = IF gholder = t THEN 0 ELSE gholder
    /\ pc' = [pc EXCEPT ![t] = "sleep"]
    /\ UNCHANGED <<flag, queue, todo, csvars, mainvars,
                   owner, waitq, relCount, setAt, relAt>>

\* line 53: usleep(100), then back to the top of while (true)
acquire_retry_sleep(t) ==
    /\ pc[t] = "sleep"
    /\ pc' = [pc EXCEPT ![t] = "tas"]
    /\ UNCHANGED <<lockvars, todo, csvars, mainvars, ghost>>

\* Faulty variant: the decrement is missing.
acquire_fetch_sub_missing(t) ==
    /\ pc[t] = "dec"
    /\ waitq' = SelectSeq(waitq, LAMBDA u : u # t)
    /\ pc' = [pc EXCEPT ![t] = "cs1"]
    /\ UNCHANGED <<lockvars, todo, csvars, mainvars,
                   gholder, owner, relCount, setAt, relAt>>

\* line 57: __atomic_fetch_sub(&lock->queue, 1, __ATOMIC_SEQ_CST); return
acquire_fetch_sub(t) ==
    /\ pc[t] = "dec"
    /\ queue' = queue - 1
    /\ waitq' = SelectSeq(waitq, LAMBDA u : u # t)
    /\ pc' = [pc EXCEPT ![t] = "cs1"]
    /\ UNCHANGED <<flag, guard, todo, csvars, mainvars,
                   gholder, owner, relCount, setAt, relAt>>

\* simple_lock_acquire: one step of thread t inside the function.
simple_lock_acquire(t) ==
    \/ acquire_fetch_add(t)
    \/ acquire_test_and_set(t)
    \/ acquire_spin(t)
    \/ acquire_check_flag(t)
    \/ acquire_set_flag(t)
    \/ acquire_release_guard(t)
    \/ acquire_busy_release_guard(t)
    \/ acquire_retry_sleep(t)
    \/ acquire_fetch_sub(t)

\* Faulty variant: release clears guard instead of flag.
simple_lock_release_wrong_field(t) ==
    /\ pc[t] = "rel"
    /\ guard' = FALSE
    /\ owner' = 0
    /\ relCount' = relCount + 1
    /\ relAt' = [relAt EXCEPT ![t] = relCount + 1]
    /\ todo' = [todo EXCEPT ![t] = todo[t] - 1]
    /\ pc' = [pc EXCEPT ![t] = IF todo[t] > 1 THEN "start" ELSE "done"]
    /\ UNCHANGED <<flag, queue, csvars, mainvars, gholder, waitq, setAt>>

\* Variant that takes guard for the store: it has to wait while another
\* thread holds guard.
simple_lock_release_guarded(t) ==
    /\ pc[t] = "rel"
    /\ ~guard
    /\ flag' = FALSE
    /\ owner' = 0
    /\ relCount' = relCount + 1
    /\ relAt' = [relAt EXCEPT ![t] = relCount + 1]
    /\ todo' = [todo EXCEPT ![t] = todo[t] - 1]
    /\ pc' = [pc EXCEPT ![t] = IF todo[t] > 1 THEN "start" ELSE "done"]
    /\ UNCHANGED <<guard, queue, csvars, mainvars, gholder, waitq, setAt>>

\* line 63: __atomic_store_n(&lock->flag, false, __ATOMIC_RELEASE)
\* No ownership check, no use of guard.  Afterwards the caller either calls
\* simple_lock_acquire again (todo rounds left) or returns.
simple_lock_release(t) ==
    /\ pc[t] = "rel"
    /\ flag' = FALSE
    /\ owner' = 0
    /\ relCount' = relCount + 1
    /\ relAt' = [relAt EXCEPT ![t] = relCount + 1]
    /\ todo' = [todo EXCEPT ![t] = todo[t] - 1]
    /\ pc' = [pc EXCEPT ![t] = IF todo[t] > 1 THEN "start" ELSE "done"]
    /\ UNCHANGED <<guard, queue, csvars, mainvars, gholder, waitq, setAt>>

\* --------------------------------------------------------- critical section

\* line 77: printf("Hello from thread #%d") -- the id goes to the shared
\* log; the instrumented critical section also reads the shared counter.
critical_section_enter(t) ==
    /\ pc[t] = "cs1"
    /\ log' = Append(log, t)
    /\ tmp' = [tmp EXCEPT ![t] = counter]
    /\ pc' = [pc EXCEPT ![t] = "cs2"]
    /\ UNCHANGED <<lockvars, todo, counter, incs, mainvars, ghost>>

\* lines 80-82: sleep(1); printf("... releasing the lock") -- the
\* instrumented critical section writes back the value read plus one.
critical_section_leave(t) ==
    /\ pc[t] = "cs2"
    /\ counter' = tmp[t] + 1
    /\ incs' = incs + 1
    /\ pc' = [pc EXCEPT ![t] = "rel"]
    /\ UNCHANGED <<lockvars, todo, tmp, log, mainvars, ghost>>

\* thread_function: acquire, critical section, release.
thread_function(t) ==
    \/ simple_lock_acquire(t)
    \/ critical_section_enter(t)
    \/ critical_section_leave(t)
    \/ simple_lock_release(t)

\* ------------------------------------------------------------ specification

Threads == 1..NThreads

\* The state after simple_lock_init, with every thread about to call
\* simple_lock_acquire.
Init ==
    /\ flag = FALSE
    /\ guard = FALSE
    /\ queue = 0
    /\ pc = [t \in Threads |-> "start"]
    /\ todo = [t \in Threads |-> MaxRounds]
    /\ counter = 0
    /\ tmp = [t \in Threads |-> 0]
    /\ log = <<>>
    /\ mainpc = "none"
    /\ mi = 0
    /\ gholder = 0
    /\ owner = 0
    /\ waitq = <<>>
    /\ incs = 0
    /\ relCount = 0
    /\ setAt = [t \in Threads |-> 0]
    /\ relAt = [t \in Threads |-> 0]

\* Some thread takes one step (the same relation as
\* \E t \in Procs : thread_function(t), one disjunct per step).
Next ==
    \/ \E t \in Procs : acquire_fetch_add(t)
    \/ \E t \in Procs : acquire_test_and_set(t)
    \/ \E t \in Procs : acquire_spin(t)
    \/ \E t \in Procs : acquire_check_flag(t)
    \/ \E t \in Procs : acquire_set_flag(t)
    \/ \E t \in Procs : acquire_release_guard(t)
    \/ \E t \in Procs : acquire_busy_release_guard(t)
    \/ \E t \in Procs : acquire_retry_sleep(t)
    \/ \E t \in Procs : acquire_fetch_sub(t)
    \/ \E t \in Procs : critical_section_enter(t)
    \/ \E t \in Procs : critical_section_leave(t)
    \/ \E t \in Procs : simple_lock_release(t)

Spec == Init /\ [][Next]_vars

\* ------------------------------------------------------------------ harness
\* main(): initialise the lock, create the three workers (10 ms apart), join
\* them in creation order, report.  Worker i+1 is threads[i].

Workers == 1..NUM_THREADS

\* line 95: simple_lock_init(&lock)
main_init ==
    /\ mainpc = "init"
    /\ simple_lock_init
    /\ mainpc' = "create"
    /\ mi' = 0
    /\ UNCHANGED <<pc, todo, csvars, ghost>>

\* lines 100-104: for (i < 3) pthread_create(&threads[i], ..., &thread_ids[i]);
\* a failed creation makes main return 1, which ends the process.
main_create ==
    /\ mainpc = "create"
    /\ IF mi < NUM_THREADS
         THEN \/ /\ pc' = [pc EXCEPT ![mi + 1] = "start"]
                 /\ mainpc' = "delay"
                 /\ mi' = mi
              \/ /\ mainpc' = "failed"
                 /\ UNCHANGED <<pc, mi>>
         ELSE /\ mainpc' = "join"
              /\ mi' = 0
              /\ pc' = pc
    /\ UNCHANGED <<lockvars, todo, csvars, ghost>>

\* line 107: usleep(10000); i++
main_delay ==
    /\ mainpc = "delay"
    /\ mainpc' = "create"
    /\ mi' = mi + 1
    /\ UNCHANGED <<lockvars, pc, todo, csvars, ghost>>

\* Faulty variant: the join does not wait for the worker.
main_join_no_wait ==
    /\ mainpc = "join"
    /\ IF mi < NUM_THREADS
         THEN /\ mi' = mi + 1
              /\ mainpc' = mainpc
         ELSE /\ mainpc' = "report"
              /\ mi' = mi
    /\ UNCHANGED <<lockvars, pc, todo, csvars, ghost>>

\* lines 111-113: for (i < 3) pthread_join(threads[i], NULL) -- blocks until
\* thread_function of that worker has returned.
main_join ==
    /\ mainpc = "join"
    /\ IF mi < NUM_THREADS
         THEN /\ pc[mi + 1] = "done"
              /\ mi' = mi + 1
              /\ mainpc' = mainpc
         ELSE /\ mainpc' = "report"
              /\ mi' = mi
    /\ UNCHANGED <<lockvars, pc, todo, csvars, ghost>>

\* lines 115-117: printf("All threads have completed"); return 0
main_report ==
    /\ mainpc = "report"
    /\ mainpc' = "exit"
    /\ UNCHANGED <<lockvars, pc, mi, todo, csvars, ghost>>

main ==
    \/ main_init
    \/ main_create
    \/ main_delay
    \/ main_join
    \/ main_report

\* The process at the entry of main(): `simple_lock_t lock` is a global, so
\* its fields are zero before simple_lock_init runs; no worker exists yet and
\* each worker will run thread_function once.
InitHarness ==
    /\ flag = FALSE
    /\ guard = FALSE
    /\ queue = 0
    /\ pc = [t \in Workers |-> "unborn"]
    /\ todo = [t \in Workers |-> 1]
    /\ counter = 0
    /\ tmp = [t \in Workers |-> 0]
    /\ log = <<>>
    /\ mainpc = "init"
    /\ mi = 0
    /\ gholder = 0
    /\ owner = 0
    /\ waitq = <<>>
    /\ incs = 0
    /\ relCount = 0
    /\ setAt = [t \in Workers |-> 0]
    /\ relAt = [t \in Workers |-> 0]

\* The workers run as long as the process does (main has not returned).
NextHarness ==
    \/ main_init
    \/ main_create
    \/ main_delay
    \/ main_join
    \/ main_report
    \/ /\ mainpc \notin {"failed", "exit"}
       /\ Next

SpecHarness == InitHarness /\ [][NextHarness]_vars

\* ------------------------------------------------- callers that never stop
\* For progress properties the caller is any thread that acquires, runs a
\* critical section and releases, and afterwards either calls
\* simple_lock_acquire again or returns -- without bound on the number of
\* rounds.  The critical section is a single step here and the
\* instrumentation counters stay put, so the state space is finite.

\* lines 77-82, taken as one step
critical_section(t) ==
    /\ pc[t] = "cs1"
    /\ pc' = [pc EXCEPT ![t] = "rel"]
    /\ UNCHANGED <<lockvars, todo, csvars, mainvars, ghost>>

\* Faulty variant: the release store is missing.
release_without_store(t) ==
    /\ pc[t] = "rel"
    /\ owner' = 0
    /\ \E nxt \in {"start", "done"} : pc' = [pc EXCEPT ![t] = nxt]
    /\ UNCHANGED <<lockvars, todo, csvars, mainvars,
                   gholder, waitq, relCount, setAt, relAt>>

\* line 63, followed by the caller's choice to acquire again or to return
release_then_again_or_return(t) ==
    /\ pc[t] = "rel"
    /\ flag' = FALSE
    /\ owner' = 0
    /\ \E nxt \in {"start", "done"} : pc' = [pc EXCEPT ![t] = nxt]
    /\ UNCHANGED <<guard, queue, todo, csvars, mainvars,
                   gholder, waitq, relCount, setAt, relAt>>

looping_thread(t) ==
    \/ simple_lock_acquire(t)
    \/ critical_section(t)
    \/ release_then_again_or_return(t)

NextLive ==
    \/ \E t \in Procs : acquire_fetch_add(t)
    \/ \E t \in Procs : acquire_test_and_set(t)
    \/ \E t \in Procs : acquire_spin(t)
    \/ \E t \in Procs : acquire_check_flag(t)
    \/ \E t \in Procs : acquire_set_flag(t)
    \/ \E t \in Procs : acquire_release_guard(t)
    \/ \E t \in Procs : acquire_busy_release_guard(t)
    \/ \E t \in Procs : acquire_retry_sleep(t)
    \/ \E t \in Procs : acquire_fetch_sub(t)
    \/ \E t \in Procs : critical_section(t)
    \/ \E t \in Procs : release_then_again_or_return(t)

\* Fair scheduling: a thread that can take a step eventually takes one.
Fairness == \A t \in Threads : WF_vars(looping_thread(t))

SpecLive == Init /\ [][NextLive]_vars /\ Fairness

\* =================================================================== claims

\* Thread t is between the return of simple_lock_acquire and its call of
\* simple_lock_release.
InCritical(t) == pc[t] \in {"cs1", "cs2", "rel"}

\* Thread t wrote flag = true and has not yet executed its release store.
InHeldWindow(t) == pc[t] \in {"unguard", "dec", "cs1", "cs2", "rel"}

\* Thread t is between its successful test-and-set of guard and its own
\* store guard = false.
InGuardRegion(t) == pc[t] \in {"chk", "set", "unguard", "busy"}

\* Thread t announced its intent (incremented queue) and has not yet
\* succeeded in setting flag to true.
Contending(t) == pc[t] \in {"tas", "spin", "chk", "set", "busy", "sleep"}

\* Thread t incremented queue and has not yet decremented it.
Counted(t) == pc[t] \in {"tas", "spin", "chk", "set", "busy", "sleep",
                         "unguard", "dec"}

AllDone == \A t \in Procs : pc[t] = "done"

\* Thread a incremented queue before thread b did, and neither has
\* decremented it yet.
ArrivedBefore(a, b) ==
    \E i, j \in 1..Len(waitq) : i < j /\ waitq[i] = a /\ waitq[j] = b

\* ---- C1 -----------------------------------------------------------------
\* C1 (mutual exclusion): in every reachable state at most one thread is
\* between the return of simple_lock_acquire and its call of
\* simple_lock_release.
C1_MutualExclusion ==
    Cardinality({t \in Procs : InCritical(t)}) <= 1

\* One thread is in its critical section while another one, having found
\* the lock taken, waits for its retry.
C1_Witness ==
    \E t, u \in Procs : t # u /\ pc[t] = "cs2" /\ pc[u] = "sleep"

\* ---- C2 -----------------------------------------------------------------
\* C2 (no lost updates): once all threads have finished, the shared counter
\* equals the number of increments performed, which is every thread's
\* number of rounds.
C2_NoLostUpdates ==
    AllDone => /\ counter = incs
               /\ incs = Cardinality(Procs) * MaxRounds

\* All threads finished and their critical sections alternated.
C2_Witness ==
    /\ AllDone
    /\ counter = NThreads * MaxRounds
    /\ \E i \in 1..(Len(log) - 2) : log[i] # log[i + 1] /\ log[i + 1] # log[i + 2]

\* ---- C6 -----------------------------------------------------------------
\* C6 (waiters bound): 0 <= queue <= N in every reachable state.
C6_WaitersBound ==
    /\ queue >= 0
    /\ queue <= Cardinality(Procs)

\* All N threads are counted at once, one of them about to decrement.
C6_Witness ==
    /\ queue = Cardinality(Procs)
    /\ \E t \in Procs : pc[t] = "dec"

\* ---- C7 -----------------------------------------------------------------
\* C7 as claimed: in every reachable state queue equals the number of
\* threads that announced their intent and have not yet succeeded in
\* setting flag to true.
C7_WaitersExact ==
    queue = Cardinality({t \in Procs : Contending(t)})

\* C7 as amended: queue equals the number of threads between their
\* increment (line 33) and their decrement (line 57); these are the
\* contending threads plus at most one thread that has already set flag and
\* has not yet executed the decrement.
C7_WaitersCountIncToDec ==
    /\ queue = Cardinality({t \in Procs : Counted(t)})
    /\ queue - Cardinality({t \in Procs : Contending(t)}) \in {0, 1}

\* A thread has set flag and left the loop but is still counted, next to a
\* contending one.
C7_Witness ==
    \E t, u \in Procs :
        /\ t # u
        /\ pc[t] = "dec"
        /\ Contending(u)
        /\ queue = Cardinality({v \in Procs : Contending(v)}) + 1

\* ---- C8 -----------------------------------------------------------------
\* C8 (guard discipline): guard is true iff exactly one thread is between
\* its successful test-and-set and its own store guard = false; never two
\* threads are; the thread that took guard is in that region, hence not
\* asleep before a retry, past the loop, in its critical section or in
\* release.
C8_GuardDiscipline ==
    /\ Cardinality({t \in Procs : InGuardRegion(t)}) <= 1
    /\ guard <=> (\E t \in Procs : InGuardRegion(t))
    /\ guard <=> (gholder # 0)
    /\ \A t \in Procs : (gholder = t) <=> InGuardRegion(t)

\* One thread holds guard and has just read flag as true, while the thread
\* that set flag holds the lock.
C8_Witness ==
    \E t, u \in Procs :
        /\ t # u
        /\ guard
        /\ pc[t] = "busy"
        /\ flag
        /\ owner = u

\* ---- C9 -----------------------------------------------------------------
C9_Inv ==
    /\ Cardinality({t \in Procs : InHeldWindow(t)}) <= 1
    /\ flag <=> (\E t \in Procs : InHeldWindow(t))
    /\ \A t \in Procs : (owner = t) <=> InHeldWindow(t)
    /\ \A t \in Procs : InCritical(t) => flag

C9_Step ==
    /\ (~flag /\ flag') =>
          \E t \in Procs : /\ gholder = t
                           /\ pc[t] = "set"
                           /\ pc'[t] = "unguard"
                           /\ owner' = t
    /\ (flag /\ ~flag') =>
          \E t \in Procs : /\ owner = t
                           /\ pc[t] = "rel"
                           /\ pc'[t] \in {"start", "done"}

\* C9 (lock state machine): the lock starts FREE; flag goes false -> true
\* only by the thread that holds guard and read flag as false, and
\* true -> false only by the release of the thread that set it; flag is true
\* iff exactly one thread is between its write flag = true and its release
\* store, so flag is true throughout every critical section.
C9_LockStateMachine ==
    /\ ~flag
    /\ []C9_Inv
    /\ [][C9_Step]_vars

\* The lock is HELD for the second time: a thread is in its critical
\* section after an earlier release, while the other one holds guard.
C9_Witness ==
    \E t, u \in Procs :
        /\ t # u
        /\ flag
        /\ owner = t
        /\ pc[t] = "cs1"
        /\ relCount >= 1
        /\ gholder = u

\* ---- C10 ----------------------------------------------------------------
\* C10 (not FIFO): admission is decided by the race for guard alone.
\* Whenever guard is free and flag is false, a contender b about to
\* test-and-set can take guard -- and with it the lock -- although a
\* contender a that began waiting before b is about to test-and-set too.
C10_NotFifo ==
    \A a, b \in Procs :
        (/\ ArrivedBefore(a, b)
         /\ pc[a] = "tas"
         /\ pc[b] = "tas"
         /\ ~guard
         /\ ~flag)
        => ENABLED (acquire_test_and_set(b) /\ pc'[b] = "chk")

\* b has set flag while a, which incremented queue before b did, is still
\* contending: b acquired the lock before a.
C10_Witness ==
    \E a, b \in Procs :
        /\ ArrivedBefore(a, b)
        /\ owner = b
        /\ flag
        /\ pc[b] = "dec"
        /\ Contending(a)

\* ---- C5 -----------------------------------------------------------------
\* C5 (three-thread scenario, SpecHarness): when the three workers have
\* finished, the log has exactly 3 entries, each id 1..3 once, and for every
\* two entries the earlier thread's release store precedes the later
\* thread's write flag = true.
C5_ThreeThreadScenario ==
    AllDone =>
        /\ Len(log) = NUM_THREADS
        /\ \A id \in 1..NUM_THREADS :
              Cardinality({i \in 1..Len(log) : log[i] = id}) = 1
        /\ \A i, j \in 1..Len(log) :
              i < j => /\ relAt[log[i]] >= 1
                       /\ relAt[log[i]] <= setAt[log[j]]

\* main has reported completion and the workers did not run in the order of
\* their creation.
C5_Witness ==
    /\ mainpc = "exit"
    /\ AllDone
    /\ log = <<3, 1, 2>>

\* ---- C3 -----------------------------------------------------------------
\* C3 as claimed (SpecLive): under fair scheduling, with every holder
\* releasing, every call of simple_lock_acquire eventually returns, also
\* when other threads re-acquire the lock again and again.
C3_AcquireAlwaysReturns ==
    \A t \in Threads : (pc[t] = "tas") ~> (pc[t] = "cs1")

\* C3 as amended: under fair scheduling every call of simple_lock_acquire by
\* a thread t eventually returns provided the other threads call
\* simple_lock_acquire only finitely often (from some point on no other
\* thread is about to call it).
C3_AcquireReturnsIfOthersStop ==
    \A t \in Threads :
        (<>[](\A u \in Threads \ {t} : pc[u] # "start"))
            => ((pc[t] = "tas") ~> (pc[t] = "cs1"))

\* A call has returned after the thread found the lock taken at least once,
\* and every other thread has stopped.
C3_Witness ==
    \E t \in Threads :
        /\ pc[t] = "cs1"
        /\ \A u \in Threads \ {t} : pc[u] = "done"

\* ---- C4 -----------------------------------------------------------------
\* Thread w is inside the acquire loop and has not read flag as false.
Spinning(w) == pc[w] \in {"tas", "spin", "chk", "busy", "sleep"}

\* C4 (eventual acquisition with one waiter, SpecLive): if one thread h holds
\* the lock, one other thread w is spinning in simple_lock_acquire and
\* nobody else takes part, then under fair scheduling, unless h calls
\* simple_lock_acquire again, w eventually leaves the loop with flag set to
\* true by itself.
C4_EventualAcquisition ==
    \A h, w \in Threads :
        (/\ h # w
         /\ InHeldWindow(h)
         /\ Spinning(w)
         /\ \A u \in Threads \ {h, w} : pc[u] = "done")
        ~> (\/ pc[h] = "start"
            \/ (pc[w] = "dec" /\ flag /\ owner = w))

\* The holder has released and returned while the other thread, which found
\* the lock taken, is still asleep before its retry.
C4_Witness ==
    \E h, w \in Threads :
        /\ h # w
        /\ pc[h] = "done"
        /\ pc[w] = "sleep"
        /\ ~flag
        /\ \A u \in Threads \ {h, w} : pc[u] = "done"

\* ------------------------------------------------ initialising a used lock
\* A caller that finds the lock with arbitrary field values, calls
\* simple_lock_init (once or twice) and then lets a single thread run
\* thread_function.  mainpc is the caller's position: "pre" before the
\* first call, "inited" / "inited2" after the first / second call, and
\* "ready" once the thread was started after an initialisation ("raw" when
\* it was started on the lock as found, which the contract forbids).

\* lines 24-28, called at line 95 (and possibly once more)
caller_init ==
    /\ mainpc \in {"pre", "inited"}
    /\ simple_lock_init
    /\ mainpc' = IF mainpc = "pre" THEN "inited" ELSE "inited2"
    /\ UNCHANGED <<pc, mi, todo, csvars, ghost>>

\* line 101: the single thread is created
caller_launch ==
    /\ mainpc \in {"pre", "inited", "inited2"}
    /\ pc' = [t \in Procs |-> "start"]
    /\ mainpc' = IF mainpc = "pre" THEN "raw" ELSE "ready"
    /\ UNCHANGED <<lockvars, mi, todo, csvars, ghost>>

InitAnyLock ==
    /\ flag \in BOOLEAN
    /\ guard \in BOOLEAN
    /\ queue \in (-MaxPrior)..MaxPrior
    /\ pc = [t \in {1} |-> "unborn"]
    /\ todo = [t \in {1} |-> 1]
    /\ counter = 0
    /\ tmp = [t \in {1} |-> 0]
    /\ log = <<>>
    /\ mainpc = "pre"
    /\ mi = 0
    /\ gholder = 0
    /\ owner = 0
    /\ waitq = <<>>
    /\ incs = 0
    /\ relCount = 0
    /\ setAt = [t \in {1} |-> 0]
    /\ relAt = [t \in {1} |-> 0]

NextInit ==
    \/ caller_init
    \/ caller_launch
    \/ Next

SpecInit == InitAnyLock /\ [][NextInit]_vars

\* ---- C11 ----------------------------------------------------------------
\* C11 (initialize resets to FREE and is idempotent): whatever the fields
\* held before, after simple_lock_init -- and after a second call -- the
\* lock is flag = false, guard = false, queue = 0; a single thread that
\* acquires right afterwards never takes the retry branch (no failed
\* test-and-set, no busy lock, no sleep) and returns from
\* simple_lock_acquire with flag = true, guard = false, queue = 0.
C11_InitResets ==
    /\ mainpc \in {"inited", "inited2"} =>
          (flag = FALSE /\ guard = FALSE /\ queue = 0)
    /\ mainpc = "ready" =>
          \A t \in Procs :
             /\ pc[t] \notin {"spin", "busy", "sleep"}
             /\ pc[t] = "cs1" => (flag = TRUE /\ guard = FALSE /\ queue = 0)

\* The thread started after the second initialisation has returned from
\* simple_lock_acquire.
C11_Witness ==
    /\ mainpc = "ready"
    /\ \E t \in Procs : pc[t] = "cs1"
    /\ flag /\ ~guard /\ queue = 0

\* ------------------------------------------------------- misuse of the lock
\* Callers that break the pairing of acquire and release: a thread in its
\* critical section calls simple_lock_acquire again (recursion), and a thread
\* that is outside simple_lock_acquire and not in a critical section calls
\* simple_lock_release (it never acquired, or it has released already).

\* line 74 reached again from inside the critical section (lines 76-82)
recursive_acquire(t) ==
    /\ pc[t] = "cs1"
    /\ pc' = [pc EXCEPT ![t] = "start"]
    /\ UNCHANGED <<lockvars, todo, csvars, mainvars, ghost>>

\* Variant with an ownership check: the store happens only for the thread
\* that set flag (the code has no such check).
release_unpaired_checked(t) ==
    /\ pc[t] = "start"
    /\ owner = t
    /\ flag' = FALSE
    /\ owner' = 0
    /\ UNCHANGED <<guard, queue, pc, todo, csvars, mainvars,
                   gholder, waitq, relCount, setAt, relAt>>

\* line 63, called by a thread that is not between acquire and release
release_unpaired(t) ==
    /\ pc[t] = "start"
    /\ flag' = FALSE
    /\ owner' = 0
    /\ UNCHANGED <<guard, queue, pc, todo, csvars, mainvars,
                   gholder, waitq, relCount, setAt, relAt>>

NextMisuse ==
    \/ NextLive
    \/ \E t \in Procs : recursive_acquire(t)
    \/ \E t \in Procs : release_unpaired(t)

SpecMisuse == Init /\ [][NextMisuse]_vars

\* ---- C12 ----------------------------------------------------------------
Positions == {"unborn", "start", "tas", "spin", "chk", "set", "unguard",
              "busy", "sleep", "dec", "cs1", "cs2", "rel", "done"}

\* A spinning thread always has a next step inside simple_lock_acquire, and
\* no thread is ever anywhere but at a position of the code.
C12_Inv ==
    \A t \in Procs :
        /\ pc[t] \in Positions
        /\ Spinning(t) => ENABLED simple_lock_acquire(t)

C12_Step ==
    \A t \in Procs :
        /\ (pc[t] # "cs1" /\ pc'[t] = "cs1") => pc[t] = "dec"
        /\ (pc[t] # "dec" /\ pc'[t] = "dec") => pc[t] = "unguard"
        /\ (pc[t] # "unguard" /\ pc'[t] = "unguard") =>
              (pc[t] = "set" /\ flag')
        /\ (pc[t] # "set" /\ pc'[t] = "set") =>
              (pc[t] = "chk" /\ ~flag /\ gholder = t)
        /\ (flag /\ flag' /\ Spinning(t)) => Spinning(t)'

\* C12 (no abort, no timeout): simple_lock_acquire is left only through
\* line 57, reached only by the thread that itself read flag = false under
\* guard and wrote flag = true; across every step that leaves flag true a
\* spinning thread stays spinning -- another thread as well as the holder
\* that called simple_lock_acquire recursively -- and it can always take
\* its next step of the loop; no error position exists.
C12_NoAbortNoTimeout ==
    /\ []C12_Inv
    /\ [][C12_Step]_vars

\* Self-deadlock: the thread that set flag sleeps before a retry of its own
\* recursive call, and the other thread spins as well.
C12_Witness ==
    \E t, u \in Procs :
        /\ t # u
        /\ flag
        /\ owner = t
        /\ pc[t] = "sleep"
        /\ Spinning(u)

\* ---- C15 ----------------------------------------------------------------
\* C15 (misuse is undetected): whenever a thread u is in its critical
\* section, having set flag, a release by a thread t that does not hold the
\* lock goes through: it clears flag and changes nothing else, no thread
\* ends up in an error position.
C15_ReleaseUnchecked ==
    \A t, u \in Procs :
        (/\ t # u
         /\ pc[t] = "start"
         /\ pc[u] = "cs1"
         /\ owner = u
         /\ flag)
        => ENABLED (release_unpaired(t) /\ ~flag' /\ pc' = pc)

\* Two threads are in their critical sections at once.
C15_Witness ==
    \E t, u \in Procs :
        /\ t # u
        /\ pc[t] = "cs1"
        /\ pc[u] \in {"cs1", "rel"}

\* ------------------------------------------------ any value of the counter
\* The threads of SpecLive on a lock whose queue field starts at any value
\* in -MaxPrior..MaxPrior (flag and guard start false).
InitAnyQueue ==
    /\ flag = FALSE
    /\ guard = FALSE
    /\ queue \in (-MaxPrior)..MaxPrior
    /\ pc = [t \in Threads |-> "start"]
    /\ todo = [t \in Threads |-> MaxRounds]
    /\ counter = 0
    /\ tmp = [t \in Threads |-> 0]
    /\ log = <<>>
    /\ mainpc = "none"
    /\ mi = 0
    /\ gholder = 0
    /\ owner = 0
    /\ waitq = <<>>
    /\ incs = 0
    /\ relCount = 0
    /\ setAt = [t \in Threads |-> 0]
    /\ relAt = [t \in Threads |-> 0]

SpecAnyQueue == InitAnyQueue /\ [][NextLive]_vars

\* The step of a thread at position p of lines 31-64 and 74-85, as a
\* function of what the code reads there -- flag f and guard g:
\* <<the positions it may go to, the new flag, the new guard, the amount
\* added to queue>>.
LockStep(p, f, g) ==
    CASE p = "start"   -> <<{"tas"}, f, g, 1>>
      [] p = "tas"     -> <<{IF g THEN "spin" ELSE "chk"}, f, TRUE, 0>>
      [] p = "spin"    -> <<{"tas"}, f, g, 0>>
      [] p = "chk"     -> <<{IF ~f THEN "set" ELSE "busy"}, f, g, 0>>
      [] p = "set"     -> <<{"unguard"}, TRUE, g, 0>>
      [] p = "unguard" -> <<{"dec"}, f, FALSE, 0>>
      [] p = "busy"    -> <<{"sleep"}, f, FALSE, 0>>
      [] p = "sleep"   -> <<{"tas"}, f, g, 0>>
      [] p = "dec"     -> <<{"cs1"}, f, g, -1>>
      [] p = "cs1"     -> <<{"rel"}, f, g, 0>>
      [] p = "rel"     -> <<{"start", "done"}, FALSE, g, 0>>
      [] OTHER         -> <<{p}, f, g, 0>>

\* ---- C13 ----------------------------------------------------------------
\* Whatever queue holds, a thread that has not returned can take its step.
C13_Inv ==
    \A t \in Procs : pc[t] # "done" => ENABLED looping_thread(t)

\* Whatever queue holds, the branch a thread takes and the values of flag
\* and guard after its step are those LockStep gives from the thread's
\* position, flag and guard alone, and queue changes by a fixed amount.
C13_Step ==
    \A t \in Procs :
        pc'[t] # pc[t] =>
            LET r == LockStep(pc[t], flag, guard)
            IN  /\ pc'[t] \in r[1]
                /\ flag' = r[2]
                /\ guard' = r[3]
                /\ queue' = queue + r[4]

\* C13 (waiters never gates admission), as the step-wise condition that
\* implies it: from states that differ only in queue, every thread is
\* enabled alike and its step takes the same branch and writes the same
\* flag and guard, queue moving by the same amount -- so two executions
\* under the same schedule agree on every branch, on flag, on guard and on
\* every return of simple_lock_acquire.
C13_WaitersNeverGates ==
    /\ []C13_Inv
    /\ [][C13_Step]_vars

\* On a lock whose counter started off by MaxPrior, a thread has returned
\* from simple_lock_acquire while the other one is still counted.
C13_Witness ==
    \E t, u \in Procs :
        /\ t # u
        /\ pc[t] = "cs1"
        /\ Contending(u)
        /\ queue = Len(waitq) + MaxPrior

\* ----------------------------------------------------------- fair harness
\* The program under a fair scheduler: main and every created worker keep
\* being scheduled while the process runs.
FairnessHarness ==
    /\ WF_vars(main)
    /\ \A t \in Workers :
          WF_vars(mainpc \notin {"failed", "exit"} /\ thread_function(t))

SpecHarnessFair == SpecHarness /\ FairnessHarness

\* ---- C14 ----------------------------------------------------------------
\* main is past "all workers complete" only when every worker has returned,
\* and a worker exists only after simple_lock_init has run.
C14_Safety ==
    /\ mainpc \in {"report", "exit"} => AllDone
    /\ mainpc = "init" => \A t \in Procs : pc[t] = "unborn"

acquire_release_guard_early(t) ==
    /\ pc[t] = "set"
    /\ guard' = FALSE
    /\ gholder' = IF gholder = t THEN 0 ELSE gholder
    /\ pc' = [pc EXCEPT ![t] = "setlate"]
    /\ UNCHANGED <<flag, queue, todo, csvars, mainvars,
                   owner, waitq, relCount, setAt, relAt>>

\* line 46 becoming visible after line 47
acquire_set_flag_late(t) ==
    /\ pc[t] = "setlate"
    /\ flag' = TRUE
    /\ owner' = t
    /\ setAt' = [setAt EXCEPT ![t] = relCount]
    /\ pc' = [pc EXCEPT ![t] = "dec"]
    /\ UNCHANGED <<guard, queue, todo, csvars, mainvars,
                   gholder, waitq, relCount, relAt>>

NextRelaxed ==
    \/ NextLive
    \/ \E t \in Procs : acquire_release_guard_early(t)
    \/ \E t \in Procs : acquire_set_flag_late(t)

SpecRelaxed == Init /\ [][NextRelaxed]_vars

\* ---- C16 ----------------------------------------------------------------
\* C16 (memory ordering of the guard): the guard is released with release
\* ordering, so the read-then-write of flag done under guard is one atomic
\* region: whenever a thread holds guard, no other thread has released
\* guard on the lock-taken branch with its write of flag not yet visible --
\* every later guard holder observes the region in full.
C16_GuardedRegionAtomic ==
    \A t, u \in Procs :
        (t # u /\ InGuardRegion(u)) => pc[t] # "setlate"

\* ---- C17 ----------------------------------------------------------------
\* A thread about to release can do so, whoever holds guard.
C17_Inv ==
    \A t \in Procs : pc[t] = "rel" => ENABLED simple_lock_release(t)

\* The release is one step that writes flag = false and leaves guard, its
\* holder, queue and every other thread alone.
C17_Step ==
    \A t \in Procs :
        (pc[t] = "rel" /\ pc'[t] # "rel") =>
            /\ pc'[t] \in {"start", "done"}
            /\ flag' = FALSE
            /\ guard' = guard
            /\ gholder' = gholder
            /\ queue' = queue
            /\ \A u \in Procs \ {t} : pc'[u] = pc[u]

\* C17 (release frame): simple_lock_release is a single non-blocking step
\* that writes only flag (to false); it never waits for guard and leaves
\* guard and queue unchanged, also while another thread holds guard and is
\* inspecting flag.
C17_ReleaseFrame ==
    /\ []C17_Inv
    /\ [][C17_Step]_vars

\* A thread that read flag as true still holds guard, and flag is false
\* already: the release happened while guard was held.
C17_Witness ==
    \E u \in Procs :
        /\ pc[u] = "busy"
        /\ guard
        /\ gholder = u
        /\ ~flag
        /\ relCount >= 1

\* ---- C18 ----------------------------------------------------------------
\* C18 (quiescent state equals initial state): whenever no thread is inside
\* simple_lock_acquire, in its critical section or in simple_lock_release,
\* the lock is flag = false, guard = false, queue = 0.
C18_QuiescentIsInitial ==
    (\A t \in Procs : pc[t] \in {"start", "done"})
        => (flag = FALSE /\ guard = FALSE /\ queue = 0)

\* Between two rounds: acquires and releases have completed, a thread is
\* about to acquire again, nobody is inside.
C18_Witness ==
    /\ \A t \in Procs : pc[t] \in {"start", "done"}
    /\ \E t \in Procs : pc[t] = "start"
    /\ relCount >= 2

\* ---- C19 ----------------------------------------------------------------
\* Thread t has called simple_lock_acquire and the call has not returned.
InAcquire(t) == pc[t] \in {"tas", "spin", "chk", "set", "unguard", "busy",
                           "sleep", "dec"}

\* C19 (global progress, SpecLive): unless every thread has returned, some
\* thread can take a step; and under fair scheduling, whenever flag is
\* false while a thread is inside simple_lock_acquire, eventually some
\* thread has set flag to true and returned from simple_lock_acquire.
C19_GlobalProgress ==
    /\ [](AllDone \/ ENABLED NextLive)
    /\ ((~flag /\ \E t \in Procs : InAcquire(t))
           ~> (\E t \in Procs : flag /\ owner = t /\ pc[t] = "cs1"))

\* The lock is free again while two threads are inside simple_lock_acquire,
\* one of them after a retry.
C19_Witness ==
    \E t, u \in Procs :
        /\ t # u
        /\ ~flag
        /\ ~guard
        /\ pc[t] = "sleep"
        /\ pc[u] = "tas"

====
